---- MODULE Spec2Model ----
(***************************************************************************)
(* ScholarFinderAPI (python_integration_example.py): a thin CRUD client    *)
(* that turns each method call into one `requests` call against one of two *)
(* fixed endpoints and returns `response.json()`.                          *)
(*                                                                         *)
(* Python values are tagged tuples, so that values of different Python     *)
(* types can be compared:                                                  *)
(*   None -> <<"null">>     "s" -> <<"str", "s">>     7 -> <<"num", 7>>    *)
(*   [..] -> <<"list", <<v1, ..>> >>                                       *)
(*   {..} -> <<"dict", << <<k1, v1>>, .. >> >>  (insertion ordered, keys   *)
(*           unique, as a Python dict is)                                  *)
(* A JSON text is a sequence of tokens <<kind, payload>>.                  *)
(***************************************************************************)
EXTENDS Integers, Sequences, FiniteSets, TLC

VARIABLES
    self_headers,   \* self.headers
    papers_url,     \* self.papers_url
    reviewers_url,  \* self.reviewers_url
    pc,             \* per caller: where its current call stands
    call,           \* per caller: the method called and its arguments
    data,           \* per frame: the local `data` of the running method
    response,       \* per frame: the local `response` of the running method
    out,            \* per caller: the requests its current call put on the wire
    net,            \* per caller: what the server answered to its request
    ret,            \* per caller: what the call returned or raised
    ncalls,         \* calls made so far
    nreq            \* requests put on the wire so far

vars == <<self_headers, papers_url, reviewers_url, pc, call, data, response,
          out, net, ret, ncalls, nreq>>

\* Calls made in one run.
MaxCalls == 3

\* The callers (threads or tasks) that share the one client.
Callers == {"c1", "c2"}
Main == "c1"

----------------------------------------------------------------------------
\* Python values

Null == <<"null">>
Str(s) == <<"str", s>>
Num(n) == <<"num", n>>
List(s) == <<"list", s>>
Dict(s) == <<"dict", s>>

IsDict(v) == v[1] = "dict"
IsList(v) == v[1] = "list"

\* bool(v): None, 0, "" and the empty containers are falsy.
Truthy(v) ==
    CASE v[1] = "null" -> FALSE
      [] v[1] = "num" -> v[2] # 0
      [] v[1] = "str" -> v[2] # ""
      [] OTHER -> v[2] # <<>>

\* `a or b`
Or(a, b) == IF Truthy(a) THEN a ELSE b

Keys(d) == {d[2][i][1] : i \in 1..Len(d[2])}

\* d[k], for k in d
Get(d, k) == LET i == CHOOSE j \in 1..Len(d[2]) : d[2][j][1] = k IN d[2][i][2]

\* d[k] = v: an existing key keeps its place, a new key goes last.
DictSet(d, k, v) ==
    IF k \in Keys(d)
    THEN Dict([i \in 1..Len(d[2]) |-> IF d[2][i][1] = k THEN <<k, v>> ELSE d[2][i]])
    ELSE Dict(Append(d[2], <<k, v>>))

\* {**a, **b}
RECURSIVE DictMergePairs(_, _)
DictMergePairs(d, pairs) ==
    IF pairs = <<>> THEN d
    ELSE DictMergePairs(DictSet(d, Head(pairs)[1], Head(pairs)[2]), Tail(pairs))

DictMerge(a, b) == DictMergePairs(a, b[2])

\* The mapping a dict denotes (its order forgotten).
AsMap(d) == [k \in Keys(d) |-> Get(d, k)]

----------------------------------------------------------------------------
\* JSON texts

LBrack == <<"punct", "[">>
RBrack == <<"punct", "]">>
LBrace == <<"punct", "{">>
RBrace == <<"punct", "}">>
Comma == <<"punct", ",">>
Colon == <<"punct", ":">>

\* json.dumps, as requests applies it to the `json=` argument.
RECURSIVE Dumps(_), DumpsElems(_), DumpsMembers(_)
Dumps(v) ==
    CASE v[1] = "null" -> << <<"lit", "null">> >>
      [] v[1] = "str" -> << <<"str", v[2]>> >>
      [] v[1] = "num" -> << <<"num", v[2]>> >>
      [] v[1] = "list" -> <<LBrack>> \o DumpsElems(v[2]) \o <<RBrack>>
      [] v[1] = "dict" -> <<LBrace>> \o DumpsMembers(v[2]) \o <<RBrace>>

DumpsElems(s) ==
    IF s = <<>> THEN <<>>
    ELSE Dumps(Head(s))
         \o (IF Len(s) > 1 THEN <<Comma>> \o DumpsElems(Tail(s)) ELSE <<>>)

DumpsMembers(s) ==
    IF s = <<>> THEN <<>>
    ELSE << <<"str", Head(s)[1]>>, Colon >> \o Dumps(Head(s)[2])
         \o (IF Len(s) > 1 THEN <<Comma>> \o DumpsMembers(Tail(s)) ELSE <<>>)

ParseFail == [ok |-> FALSE, val |-> Null, rest |-> <<>>]
ParseOk(v, r) == [ok |-> TRUE, val |-> v, rest |-> r]

\* The JSON decoder behind response.json(): one value from the front of ts.
RECURSIVE ParseValue(_), ParseElems(_, _), ParseMembers(_, _)
ParseValue(ts) ==
    IF ts = <<>> THEN ParseFail
    ELSE LET t == Head(ts)
             r == Tail(ts)
         IN  CASE t[1] = "lit" -> ParseOk(Null, r)
               [] t[1] = "str" -> ParseOk(Str(t[2]), r)
               [] t[1] = "num" -> ParseOk(Num(t[2]), r)
               [] t = LBrack ->
                    IF r # <<>> /\ Head(r) = RBrack
                    THEN ParseOk(List(<<>>), Tail(r))
                    ELSE ParseElems(r, <<>>)
               [] t = LBrace ->
                    IF r # <<>> /\ Head(r) = RBrace
                    THEN ParseOk(Dict(<<>>), Tail(r))
                    ELSE ParseMembers(r, Dict(<<>>))
               [] OTHER -> ParseFail

ParseElems(ts, acc) ==
    LET e == ParseValue(ts)
    IN  IF ~e.ok \/ e.rest = <<>> THEN ParseFail
        ELSE IF Head(e.rest) = Comma
             THEN ParseElems(Tail(e.rest), Append(acc, e.val))
        ELSE IF Head(e.rest) = RBrack
             THEN ParseOk(List(Append(acc, e.val)), Tail(e.rest))
        ELSE ParseFail

ParseMembers(ts, acc) ==
    IF Len(ts) < 2 \/ ts[1][1] # "str" \/ ts[2] # Colon THEN ParseFail
    ELSE LET e == ParseValue(SubSeq(ts, 3, Len(ts)))
         IN  IF ~e.ok \/ e.rest = <<>> THEN ParseFail
             ELSE IF Head(e.rest) = Comma
                  THEN ParseMembers(Tail(e.rest), DictSet(acc, ts[1][2], e.val))
             ELSE IF Head(e.rest) = RBrace
                  THEN ParseOk(DictSet(acc, ts[1][2], e.val), Tail(e.rest))
             ELSE ParseFail

\* How a call ends: with a value, or with an exception.
Returned(v) == <<"return", v>>
Raised(e) == <<"raise", e>>

\* json.loads of a whole text: the value, or JSONDecodeError.
Loads(ts) ==
    LET p == ParseValue(ts)
    IN  IF p.ok /\ p.rest = <<>> THEN Returned(p.val) ELSE Raised("JSONDecodeError")

----------------------------------------------------------------------------
\* Module-level configuration

SUPABASE_URL == "https://ofutrsieokzfvypdoeen.supabase.co"
SUPABASE_ANON_KEY == "anon-key"    \* the JWT literal, abbreviated
PAPERS_API == <<SUPABASE_URL, "/functions/v1/api-papers">>
REVIEWERS_API == <<SUPABASE_URL, "/functions/v1/api-reviewers">>

headers ==
    [h \in {"apikey", "Authorization", "Content-Type"} |->
        CASE h = "apikey" -> <<SUPABASE_ANON_KEY>>
          [] h = "Authorization" -> <<"Bearer", SUPABASE_ANON_KEY>>
          [] h = "Content-Type" -> <<"application/json">>]

----------------------------------------------------------------------------
\* The calls a caller may make: a method and its arguments.  An optional
\* parameter that the caller leaves out is bound to its default, None.

NoCall == [op |-> "none"]

PaperOps == {"get_papers", "create_paper", "update_paper", "delete_paper"}

AuthorsArgs == {Null, List(<<Str("A")>>)}
KeywordsArgs == {Null, List(<<Str("k1"), Str("k2")>>)}
MetadataArgs == {Null, Dict(<<>>), Dict(<< <<"doi", Str("10.1234/example")>> >>)}
EmailArgs == {Null, Str("e@u.edu")}
ExpertiseArgs == {Null, List(<<>>), List(<<Str("ml"), Str("cv")>>)}
HIndexArgs == {Null, Num(45)}
IdArgs == {Num(1), Str("7f3a")}
KwargsArgs ==
    { Dict(<<>>),
      Dict(<< <<"title", Str("N")>> >>),
      Dict(<< <<"id", Num(2)>> >>),
      Dict(<< <<"name", Null>>, <<"id", Num(1)>> >>) }
BatchArgs ==
    { List(<<>>),
      List(<< Dict(<< <<"name", Str("M")>>, <<"h_index", Num(38)>> >>),
              Dict(<< <<"name", Str("S")>> >>) >>),
      List(<< Dict(<< <<"id", Num(9)>>, <<"name", Str("S")>> >>) >>) }

GetCalls == {[op |-> o] : o \in {"get_papers", "get_reviewers"}}

CreatePaperCalls ==
    {[op |-> "create_paper", title |-> Str("T"), authors |-> a,
      abstract |-> Str("X"), keywords |-> k, metadata |-> m] :
        a \in AuthorsArgs, k \in KeywordsArgs, m \in MetadataArgs}

CreateReviewerCalls ==
    {[op |-> "create_reviewer", name |-> Str("R"), email |-> e,
      institution |-> Null, expertise |-> x, h_index |-> h,
      publications_count |-> Null, metadata |-> m] :
        e \in EmailArgs, x \in ExpertiseArgs, h \in HIndexArgs,
        m \in MetadataArgs}

BatchCalls ==
    {[op |-> "create_reviewers_batch", reviewers_list |-> l] : l \in BatchArgs}

UpdateCalls ==
    {[op |-> o, id |-> i, kwargs |-> k] :
        o \in {"update_paper", "update_reviewer"}, i \in IdArgs, k \in KwargsArgs}

DeleteCalls ==
    {[op |-> o, id |-> i] :
        o \in {"delete_paper", "delete_reviewer"}, i \in IdArgs}

\* Methods whose first statement builds `data`, and those that go straight
\* to the requests call.
DataCalls == CreatePaperCalls \cup CreateReviewerCalls \cup UpdateCalls \cup DeleteCalls
DirectCalls == GetCalls \cup BatchCalls
AllCalls == DataCalls \cup DirectCalls

\* The calls two concurrent callers choose from: one of each kind.
ConcCalls ==
    { [op |-> "get_papers"],
      [op |-> "create_paper", title |-> Str("T"), authors |-> List(<<Str("A")>>),
       abstract |-> Str("X"), keywords |-> List(<<Str("k1"), Str("k2")>>),
       metadata |-> Null],
      [op |-> "create_reviewers_batch",
       reviewers_list |-> List(<< Dict(<< <<"name", Str("S")>> >>) >>)],
      [op |-> "update_reviewer", id |-> Num(1),
       kwargs |-> Dict(<< <<"title", Str("N")>> >>)],
      [op |-> "delete_paper", id |-> Num(1)],
      [op |-> "delete_reviewer", id |-> Str("7f3a")] }

----------------------------------------------------------------------------
\* The server and the transport

NoResponse == [status |-> 0, text |-> <<>>]

ListPayload ==
    Dict(<< <<"data", List(<< Dict(<< <<"id", Num(2)>>, <<"title", Str("T")>> >>),
                              Dict(<< <<"id", Num(1)>>, <<"title", Null>> >>) >>)>> >>)
ErrorPayload == Dict(<< <<"error", Str("not found")>> >>)
JsonPayloads == {ListPayload, ErrorPayload, List(<<>>)}

\* Bodies that are no JSON document: an empty body, an HTML error page, a
\* document cut short.
NonJsonBodies ==
    { <<>>,
      << <<"raw", "<html>">> >>,
      <<LBrace, <<"str", "data">>, Colon, LBrack>> }

ServerResponses ==
    {[status |-> st, text |-> b] :
        st \in {200, 404},
        b \in {Dumps(v) : v \in JsonPayloads} \cup NonJsonBodies}

----------------------------------------------------------------------------
\* The methods

\* create_paper with `metadata or {}` written as `metadata`.
CreatePaperDataNoDefault(c) ==
    Dict(<< <<"title", c.title>>,
            <<"authors", c.authors>>,
            <<"abstract", c.abstract>>,
            <<"keywords", c.keywords>>,
            <<"metadata", c.metadata>> >>)

\* create_paper: data = {...}
CreatePaperData(c) ==
    Dict(<< <<"title", c.title>>,
            <<"authors", c.authors>>,
            <<"abstract", c.abstract>>,
            <<"keywords", c.keywords>>,
            <<"metadata", Or(c.metadata, Dict(<<>>))>> >>)

\* create_reviewer with an id made up by the client.
CreateReviewerDataWithId(c) ==
    Dict(<< <<"id", Num(0)>>,
            <<"name", c.name>>,
            <<"email", c.email>>,
            <<"institution", c.institution>>,
            <<"expertise", Or(c.expertise, List(<<>>))>>,
            <<"h_index", c.h_index>>,
            <<"publications_count", c.publications_count>>,
            <<"metadata", Or(c.metadata, Dict(<<>>))>> >>)

\* create_reviewer: data = {...}
CreateReviewerData(c) ==
    Dict(<< <<"name", c.name>>,
            <<"email", c.email>>,
            <<"institution", c.institution>>,
            <<"expertise", Or(c.expertise, List(<<>>))>>,
            <<"h_index", c.h_index>>,
            <<"publications_count", c.publications_count>>,
            <<"metadata", Or(c.metadata, Dict(<<>>))>> >>)

\* update with the merge written the other way round: {**kwargs, "id": id}.
UpdateDataIdLast(id, kwargs) == DictMerge(kwargs, Dict(<< <<"id", id>> >>))

\* update_paper, update_reviewer: data = {"id": id, **kwargs}
UpdateData(id, kwargs) == DictMerge(Dict(<< <<"id", id>> >>), kwargs)

\* delete with the id under another key.
DeleteDataOtherKey(id) == Dict(<< <<"paper_id", id>> >>)

\* delete_paper, delete_reviewer: data = {"id": id}
DeleteData(id) == Dict(<< <<"id", id>> >>)

\* batch with the list wrapped in an object.
BatchJsonWrapped(reviewers_list) == Dict(<< <<"reviewers", reviewers_list>> >>)

\* create_reviewers_batch: json=reviewers_list
BatchJson(reviewers_list) == reviewers_list

DataOf(c) ==
    CASE c.op = "create_paper" -> CreatePaperData(c)
      [] c.op = "create_reviewer" -> CreateReviewerData(c)
      [] c.op \in {"update_paper", "update_reviewer"} -> UpdateData(c.id, c.kwargs)
      [] c.op \in {"delete_paper", "delete_reviewer"} -> DeleteData(c.id)

\* requests.get / post / put / delete
MethodOf(c) ==
    CASE c.op \in {"get_papers", "get_reviewers"} -> "GET"
      [] c.op \in {"create_paper", "create_reviewer", "create_reviewers_batch"} -> "POST"
      [] c.op \in {"update_paper", "update_reviewer"} -> "PUT"
      [] c.op \in {"delete_paper", "delete_reviewer"} -> "DELETE"

\* self.papers_url or self.reviewers_url
UrlOf(c) == IF c.op \in PaperOps THEN papers_url ELSE reviewers_url

\* A requests call that sends its request twice (a retry).
RequestsCallRetry(method, url, hdrs, json) ==
    LET r == [method |-> method, url |-> url, headers |-> hdrs,
              body |-> IF json = Null THEN <<>> ELSE Dumps(json)]
    IN  <<r, r>>

\* What one requests.<method>(url, headers=hdrs, json=json) call puts on the
\* wire: one request; json=None (the default) sends no body.
RequestsCall(method, url, hdrs, json) ==
    << [method |-> method, url |-> url, headers |-> hdrs,
        body |-> IF json = Null THEN <<>> ELSE Dumps(json)] >>

\* response.json() that unwraps the `data` member of the payload.
ResponseJsonData(resp) ==
    LET r == Loads(resp.text)
    IN  IF r[1] = "return" /\ IsDict(r[2]) /\ "data" \in Keys(r[2])
        THEN Returned(Get(r[2], "data"))
        ELSE r

\* response.raise_for_status() before response.json().
ResponseJsonRaiseForStatus(resp) ==
    IF resp.status >= 400 THEN Raised("HTTPError") ELSE Loads(resp.text)

\* response.json()
ResponseJson(resp) == Loads(resp.text)

\* `data` and `response` kept in one place shared by all callers (on self).
FrameShared(t) == Main

\* The locals `data` and `response` live in the frame of the running call:
\* each caller's call has its own.
Frame(t) == t

----------------------------------------------------------------------------
Init ==
    /\ self_headers = headers
    /\ papers_url = PAPERS_API
    /\ reviewers_url = REVIEWERS_API
    /\ pc = [t \in Callers |-> "idle"]
    /\ call = [t \in Callers |-> NoCall]
    /\ data = [t \in Callers |-> Null]
    /\ response = [t \in Callers |-> NoResponse]
    /\ out = [t \in Callers |-> <<>>]
    /\ net = [t \in Callers |-> NoResponse]
    /\ ret = [t \in Callers |-> Returned(Null)]
    /\ ncalls = 0
    /\ nreq = 0

Config == <<self_headers, papers_url, reviewers_url>>

\* A method with a `data` local is entered and builds it.
Build(t, c) ==
    /\ pc[t] = "idle"
    /\ ncalls < MaxCalls
    /\ call' = [call EXCEPT ![t] = c]
    /\ data' = [data EXCEPT ![Frame(t)] = DataOf(c)]
    /\ pc' = [pc EXCEPT ![t] = "built"]
    /\ out' = [out EXCEPT ![t] = <<>>]
    /\ net' = [net EXCEPT ![t] = NoResponse]
    /\ ret' = [ret EXCEPT ![t] = Returned(Null)]
    /\ ncalls' = ncalls + 1
    /\ UNCHANGED <<Config, response, nreq>>

\* A send that first sets a per-request header on the shared headers dict.
SendSetsHeader(t) ==
    /\ pc[t] = "built"
    /\ self_headers' = [h \in DOMAIN self_headers \cup {"X-Method"} |->
                           IF h = "X-Method" THEN <<MethodOf(call[t])>>
                           ELSE self_headers[h]]
    /\ LET rs == RequestsCall(MethodOf(call[t]), UrlOf(call[t]), self_headers',
                              data[Frame(t)])
       IN  /\ out' = [out EXCEPT ![t] = out[t] \o rs]
           /\ nreq' = nreq + Len(rs)
    /\ pc' = [pc EXCEPT ![t] = "sent"]
    /\ UNCHANGED <<papers_url, reviewers_url, call, data, response, net, ret, ncalls>>

\* requests.post / put / delete(url, headers=self.headers, json=data)
Send(t) ==
    /\ pc[t] = "built"
    /\ LET rs == RequestsCall(MethodOf(call[t]), UrlOf(call[t]), self_headers,
                              data[Frame(t)])
       IN  /\ out' = [out EXCEPT ![t] = out[t] \o rs]
           /\ nreq' = nreq + Len(rs)
    /\ pc' = [pc EXCEPT ![t] = "sent"]
    /\ UNCHANGED <<Config, call, data, response, net, ret, ncalls>>

\* get_papers, get_reviewers, create_reviewers_batch: the method is entered
\* and its first statement is the requests call.
CallDirect(t, c) ==
    /\ pc[t] = "idle"
    /\ ncalls < MaxCalls
    /\ call' = [call EXCEPT ![t] = c]
    /\ LET url == UrlOf(c)
           json == IF c.op = "create_reviewers_batch"
                   THEN BatchJson(c.reviewers_list) ELSE Null
           rs == RequestsCall(MethodOf(c), url, self_headers, json)
       IN  /\ out' = [out EXCEPT ![t] = rs]
           /\ nreq' = nreq + Len(rs)
    /\ pc' = [pc EXCEPT ![t] = "sent"]
    /\ net' = [net EXCEPT ![t] = NoResponse]
    /\ ret' = [ret EXCEPT ![t] = Returned(Null)]
    /\ ncalls' = ncalls + 1
    /\ UNCHANGED <<Config, data, response>>

\* The server answers (with any status) and requests returns the response:
\* response = requests.<method>(...)
Respond(t, r) ==
    /\ pc[t] = "sent"
    /\ net' = [net EXCEPT ![t] = r]
    /\ response' = [response EXCEPT ![Frame(t)] = r]
    /\ pc' = [pc EXCEPT ![t] = "received"]
    /\ UNCHANGED <<Config, call, data, out, ret, ncalls, nreq>>

\* The transport fails (connection error, timeout, DNS failure): requests
\* raises and the exception leaves the method.
TransportFail(t) ==
    /\ pc[t] = "sent"
    /\ ret' = [ret EXCEPT ![t] = Raised("ConnectionError")]
    /\ pc' = [pc EXCEPT ![t] = "idle"]
    /\ data' = [data EXCEPT ![Frame(t)] = Null]
    /\ UNCHANGED <<Config, call, response, out, net, ncalls, nreq>>

\* return response.json()
ReturnJson(t) ==
    /\ pc[t] = "received"
    /\ ret' = [ret EXCEPT ![t] = ResponseJson(response[Frame(t)])]
    /\ pc' = [pc EXCEPT ![t] = "idle"]
    /\ data' = [data EXCEPT ![Frame(t)] = Null]
    /\ response' = [response EXCEPT ![Frame(t)] = NoResponse]
    /\ UNCHANGED <<Config, call, out, net, ncalls, nreq>>

Step(t, menu) ==
    \/ \E c \in menu \cap DataCalls : Build(t, c)
    \/ Send(t)
    \/ \E c \in menu \cap DirectCalls : CallDirect(t, c)
    \/ \E r \in ServerResponses : Respond(t, r)
    \/ TransportFail(t)
    \/ ReturnJson(t)

\* One caller, calls one after the other, every argument combination.
Next == Step(Main, AllCalls)
Spec == Init /\ [][Next]_vars

\* Several callers on the same client, their calls interleaved.
NextConc == \E t \in Callers : Step(t, ConcCalls)
SpecConc == Init /\ [][NextConc]_vars

----------------------------------------------------------------------------
\* Vocabulary of the properties

\* The caller's call has come back (with a value or an exception).
Completed(t) == pc[t] = "idle" /\ call[t] # NoCall

\* The caller's call has gone through its requests call.
Emitted(t) == pc[t] \in {"sent", "received"} \/ Completed(t)

\* The caller's call received an answer from the server.
Answered(t) == net[t] # NoResponse

\* What the server reads in the body of the caller's request.
BodyOf(t) == Loads(out[t][1].body)

\* The fixed endpoint of the resource a method belongs to.
EndpointOf(c) ==
    IF c.op \in {"get_papers", "create_paper", "update_paper", "delete_paper"}
    THEN <<"https://ofutrsieokzfvypdoeen.supabase.co", "/functions/v1/api-papers">>
    ELSE <<"https://ofutrsieokzfvypdoeen.supabase.co", "/functions/v1/api-reviewers">>

\* One request, of the given method, to the resource's endpoint.
OneRequest(t, method) ==
    /\ Len(out[t]) = 1
    /\ out[t][1].method = method
    /\ out[t][1].url = EndpointOf(call[t])

\* The body is a JSON object that denotes the mapping m.
BodyIsMap(t, m) ==
    /\ BodyOf(t)[1] = "return"
    /\ IsDict(BodyOf(t)[2])
    /\ AsMap(BodyOf(t)[2]) = m

DefaultTo(v, d) == IF v = Null THEN d ELSE v

----------------------------------------------------------------------------
\* C1 as stated: every create call sends one POST to its resource's endpoint
\* whose body holds the fields with metadata defaulted to {} and EVERY
\* list-typed field (authors, keywords, expertise) defaulted to [] when not
\* given, and each given field as given.
C1_CreateDefaultsAllLists ==
    \A t \in Callers :
        Emitted(t) =>
            /\ call[t].op = "create_paper" =>
                /\ OneRequest(t, "POST")
                /\ BodyIsMap(t, [title |-> call[t].title,
                                 authors |-> DefaultTo(call[t].authors, List(<<>>)),
                                 abstract |-> call[t].abstract,
                                 keywords |-> DefaultTo(call[t].keywords, List(<<>>)),
                                 metadata |-> DefaultTo(call[t].metadata, Dict(<<>>))])
            /\ call[t].op = "create_reviewer" =>
                /\ OneRequest(t, "POST")
                /\ BodyIsMap(t, [name |-> call[t].name,
                                 email |-> call[t].email,
                                 institution |-> call[t].institution,
                                 expertise |-> DefaultTo(call[t].expertise, List(<<>>)),
                                 h_index |-> call[t].h_index,
                                 publications_count |-> call[t].publications_count,
                                 metadata |-> DefaultTo(call[t].metadata, Dict(<<>>))])

\* C1 as amended: every create call sends one POST to its resource's endpoint;
\* in the body metadata is {} when not given and expertise is [] when not
\* given; authors and keywords have no default and are sent as passed, a None
\* as null; every other field is sent as passed.
C1_CreateDefaults ==
    \A t \in Callers :
        Emitted(t) =>
            /\ call[t].op = "create_paper" =>
                /\ OneRequest(t, "POST")
                /\ BodyIsMap(t, [title |-> call[t].title,
                                 authors |-> call[t].authors,
                                 abstract |-> call[t].abstract,
                                 keywords |-> call[t].keywords,
                                 metadata |-> DefaultTo(call[t].metadata, Dict(<<>>))])
            /\ call[t].op = "create_reviewer" =>
                /\ OneRequest(t, "POST")
                /\ BodyIsMap(t, [name |-> call[t].name,
                                 email |-> call[t].email,
                                 institution |-> call[t].institution,
                                 expertise |-> DefaultTo(call[t].expertise, List(<<>>)),
                                 h_index |-> call[t].h_index,
                                 publications_count |-> call[t].publications_count,
                                 metadata |-> DefaultTo(call[t].metadata, Dict(<<>>))])

\* The second call of a run is a create_paper without authors and without
\* metadata, and its request is on the wire.
C1_Witness ==
    /\ Emitted(Main)
    /\ call[Main].op = "create_paper"
    /\ call[Main].authors = Null
    /\ call[Main].metadata = Null
    /\ Len(out[Main]) = 1
    /\ ncalls = 2

\* C2 as stated: every update call sends one PUT to its resource's endpoint
\* whose body maps id to the id argument and holds every given field with
\* its given value, whatever the fields' names, and nothing else.
C2_UpdateIdIsArgument ==
    \A t \in Callers :
        Emitted(t) /\ call[t].op \in {"update_paper", "update_reviewer"} =>
            /\ OneRequest(t, "PUT")
            /\ BodyOf(t)[1] = "return"
            /\ IsDict(BodyOf(t)[2])
            /\ Keys(BodyOf(t)[2]) = {"id"} \cup Keys(call[t].kwargs)
            /\ Get(BodyOf(t)[2], "id") = call[t].id
            /\ \A k \in Keys(call[t].kwargs) :
                   Get(BodyOf(t)[2], k) = Get(call[t].kwargs, k)

\* C2 as amended: every update call sends one PUT to its resource's endpoint
\* whose body holds every given field with its given value, and id, and
\* nothing else; id is the id argument unless a given field is itself named
\* id, and then it is that field's value.
C2_UpdateBody ==
    \A t \in Callers :
        Emitted(t) /\ call[t].op \in {"update_paper", "update_reviewer"} =>
            /\ OneRequest(t, "PUT")
            /\ BodyOf(t)[1] = "return"
            /\ IsDict(BodyOf(t)[2])
            /\ Keys(BodyOf(t)[2]) = {"id"} \cup Keys(call[t].kwargs)
            /\ "id" \notin Keys(call[t].kwargs) =>
                   Get(BodyOf(t)[2], "id") = call[t].id
            /\ \A k \in Keys(call[t].kwargs) :
                   Get(BodyOf(t)[2], k) = Get(call[t].kwargs, k)

\* An update whose fields include one named id, different from the id
\* argument, is on the wire.
C2_Witness ==
    /\ Emitted(Main)
    /\ call[Main].op = "update_reviewer"
    /\ "id" \in Keys(call[Main].kwargs)
    /\ Get(call[Main].kwargs, "id") # call[Main].id
    /\ Len(out[Main]) = 1

\* C3: every delete call sends one DELETE to its resource's endpoint, the
\* same for every id, whose body is exactly the one-key object {"id": id}.
C3_DeleteBody ==
    \A t \in Callers :
        Emitted(t) /\ call[t].op \in {"delete_paper", "delete_reviewer"} =>
            /\ OneRequest(t, "DELETE")
            /\ BodyOf(t) = Returned(Dict(<< <<"id", call[t].id>> >>))

C3_Witness ==
    /\ Emitted(Main)
    /\ call[Main].op = "delete_reviewer"
    /\ call[Main].id = Str("7f3a")
    /\ Len(out[Main]) = 1
    /\ out[Main][1].body # <<>>

\* C4: create_reviewers_batch sends one POST to the reviewers endpoint whose
\* body is the input sequence itself: same length, same order, each element
\* unchanged, nothing wrapped around it.
C4_BatchBody ==
    \A t \in Callers :
        Emitted(t) /\ call[t].op = "create_reviewers_batch" =>
            /\ OneRequest(t, "POST")
            /\ BodyOf(t) = Returned(call[t].reviewers_list)
            /\ IsList(BodyOf(t)[2])
            /\ Len(BodyOf(t)[2][2]) = Len(call[t].reviewers_list[2])

\* The second call of a run is a batch of two reviewers, and its request is
\* on the wire.
C4_Witness ==
    /\ Emitted(Main)
    /\ call[Main].op = "create_reviewers_batch"
    /\ Len(call[Main].reviewers_list[2]) = 2
    /\ Len(out[Main]) = 1
    /\ ncalls = 2

\* C5: every list call sends one GET, without a body, to its resource's
\* endpoint, and when the server answers with a JSON payload the call returns
\* that payload: same elements, same order, nothing added.
C5_ListReturnsPayload ==
    \A t \in Callers :
        call[t].op \in {"get_papers", "get_reviewers"} =>
            /\ OneRequest(t, "GET")
            /\ out[t][1].body = <<>>
            /\ \A v \in JsonPayloads :
                   Completed(t) /\ net[t].text = Dumps(v) => ret[t] = Returned(v)

\* A list call has returned after the server answered with a list of two
\* entities.
C5_Witness ==
    /\ Completed(Main)
    /\ call[Main].op = "get_reviewers"
    /\ net[Main].text = Dumps(ListPayload)
    /\ ret[Main][1] = "return"
    /\ Len(Get(ret[Main][2], "data")[2]) = 2

\* C6: the number of requests put on the wire equals the number of calls
\* that have reached their requests call, one request for each call, whether
\* the call then ends with a value, with a transport failure or with an
\* error document.
C6_OneRequestPerCall ==
    /\ nreq = ncalls - Cardinality({t \in Callers : pc[t] = "built"})
    /\ (\A u \in Callers : pc[u] = "idle") => nreq = ncalls
    /\ \A t \in Callers :
        /\ Emitted(t) => Len(out[t]) = 1
        /\ pc[t] = "built" => Len(out[t]) = 0

\* Three calls are over, the last one by a transport failure.
C6_Witness ==
    /\ Completed(Main)
    /\ ret[Main] = Raised("ConnectionError")
    /\ ncalls = 3
    /\ nreq = 3

\* C7 as stated: whatever the server answers, with whatever status, the call
\* returns the body and raises nothing; a call raises only when the
\* transport failed.
C7_RaisesOnlyOnTransportFailure ==
    \A t \in Callers :
        Completed(t) =>
            /\ Answered(t) => ret[t][1] = "return"
            /\ ret[t][1] = "raise" => ~Answered(t)

\* C7 as amended: when the server answers with a JSON document, with
\* whatever status, the call returns that document and raises nothing; a
\* call raises only when the transport failed or when the body of the answer
\* is no JSON document, and then it always raises.
C7_ReturnsJsonWhateverStatus ==
    \A t \in Callers :
        Completed(t) =>
            /\ \A v \in JsonPayloads :
                   net[t].text = Dumps(v) => ret[t] = Returned(v)
            /\ ret[t][1] = "raise" <=>
                   (~Answered(t) \/ net[t].text \in NonJsonBodies)
            /\ ~Answered(t) => ret[t] = Raised("ConnectionError")

\* A call has returned the error document of a 404 answer.
C7_Witness ==
    /\ Completed(Main)
    /\ net[Main].status = 404
    /\ net[Main].text = Dumps(ErrorPayload)
    /\ ret[Main] = Returned(ErrorPayload)

\* C8: the client's headers and URLs are what the constructor set, after any
\* calls, failed or not, and every request carries the same three headers.
C8_ConfigUnchanged ==
    /\ DOMAIN self_headers = {"apikey", "Authorization", "Content-Type"}
    /\ self_headers["apikey"] = <<SUPABASE_ANON_KEY>>
    /\ self_headers["Authorization"] = <<"Bearer", SUPABASE_ANON_KEY>>
    /\ self_headers["Content-Type"] = <<"application/json">>
    /\ papers_url = PAPERS_API
    /\ reviewers_url = REVIEWERS_API
    /\ \A t \in Callers : \A i \in 1..Len(out[t]) :
           /\ DOMAIN out[t][i].headers = {"apikey", "Authorization", "Content-Type"}
           /\ out[t][i].headers["apikey"] = <<SUPABASE_ANON_KEY>>
           /\ out[t][i].headers["Authorization"] = <<"Bearer", SUPABASE_ANON_KEY>>
           /\ out[t][i].headers["Content-Type"] = <<"application/json">>

\* Two calls are over and the request of a third one is on the wire.
C8_Witness ==
    /\ pc[Main] = "sent"
    /\ call[Main].op = "update_paper"
    /\ Len(out[Main]) = 1
    /\ ncalls = 3
    /\ nreq = 3

\* C9: an id in a request body is a value the caller supplied: a create body
\* has no id key, a batch element has an id only where the caller's element
\* has one, the same; the id of a delete body is the id argument, and the id
\* of an update body is the id argument or the caller's own field named id.
C9_NoAssignedId ==
    \A t \in Callers :
        Emitted(t) /\ call[t].op \notin {"get_papers", "get_reviewers"} =>
            /\ Len(out[t]) = 1
            /\ BodyOf(t)[1] = "return"
            /\ call[t].op \in {"create_paper", "create_reviewer"} =>
                   "id" \notin Keys(BodyOf(t)[2])
            /\ call[t].op = "create_reviewers_batch" =>
                   \A i \in 1..Len(BodyOf(t)[2][2]) :
                       "id" \in Keys(BodyOf(t)[2][2][i]) =>
                           /\ i <= Len(call[t].reviewers_list[2])
                           /\ "id" \in Keys(call[t].reviewers_list[2][i])
                           /\ Get(BodyOf(t)[2][2][i], "id")
                                  = Get(call[t].reviewers_list[2][i], "id")
            /\ call[t].op \in {"delete_paper", "delete_reviewer"} =>
                   Get(BodyOf(t)[2], "id") = call[t].id
            /\ call[t].op \in {"update_paper", "update_reviewer"} =>
                   Get(BodyOf(t)[2], "id") \in
                       {call[t].id} \cup {Get(call[t].kwargs, k) :
                                             k \in Keys(call[t].kwargs) \cap {"id"}}

\* The second call of a run is a create_reviewer, and its request, with a
\* body, is on the wire.
C9_Witness ==
    /\ Emitted(Main)
    /\ call[Main].op = "create_reviewer"
    /\ Len(out[Main]) = 1
    /\ out[Main][1].body # <<>>
    /\ ncalls = 2

\* The request a call emits when it runs alone.
AloneRequest(c) ==
    [method |-> MethodOf(c),
     url |-> EndpointOf(c),
     headers |-> headers,
     body |-> CASE c.op \in {"get_papers", "get_reviewers"} -> <<>>
                [] c.op = "create_reviewers_batch" -> Dumps(c.reviewers_list)
                [] OTHER -> Dumps(DataOf(c))]

\* C10: with calls of several callers interleaved, each call emits exactly
\* the request it emits alone, and returns the decoded answer to its own
\* request.
C10_CallsIndependent ==
    \A t \in Callers :
        /\ Emitted(t) => out[t] = <<AloneRequest(call[t])>>
        /\ Completed(t) /\ Answered(t) => ret[t] = Loads(net[t].text)
        /\ Completed(t) /\ ~Answered(t) => ret[t] = Raised("ConnectionError")

\* Two calls overlap: one caller holds an answer it has not yet decoded
\* while the other, with another call and another answer, does too.
C10_Witness ==
    /\ pc["c1"] = "received"
    /\ pc["c2"] = "received"
    /\ call["c1"] # call["c2"]
    /\ net["c1"] # net["c2"]

====
